---------------------------- MODULE Spec2Model ----------------------------
(***************************************************************************)
(* The LU kernel of sim-util: luDecomposition, backSubstitution,           *)
(* inverseNoLU and inverse, in the two versions the repository holds:      *)
(*   "eps"   - include/simploce/util/singleton.hpp, lines 90-295           *)
(*             (tolerance numeric_limits<T>::epsilon(), parity returned    *)
(*             as std::size_t, progress output, in-place Solve);           *)
(*   "fixed" - include/simploce/util/lu.hpp                                *)
(*             (tolerance 1.0e-07, no return value, Solve into x).         *)
(*                                                                         *)
(* The element type T is modelled by exact rationals <<num, den>> in       *)
(* lowest terms with den > 0.  Matrices and vectors are functions over     *)
(* 0 .. ndim-1, as the code indexes them.                                  *)
(***************************************************************************)
EXTENDS Integers, FiniteSets, Sequences, TLC

(***************************************************************************)
(* Bounds of the model.                                                    *)
(***************************************************************************)
\* Largest dimension ndim.
MaxN == 3
\* Up to this dimension the inputs range over FineVals, above it over 0/1.
FineDim == 2
\* How often the caller may call luDecomposition on the same matrix.
MaxCalls == 2
\* The tolerances are 1/EpsDen ("eps") and 1/FixedDen ("fixed").  The code's
\* values, 2^-52 and 10^-7, leave the 32-bit integers of the model checker
\* once multiplied; the model keeps what the code uses them for: a positive
\* threshold below every regular magnitude, above the sub-tolerance input
\* Tiny, and smaller in the "eps" version than in the "fixed" one.
EpsDen == 64
FixedDen == 16

(***************************************************************************)
(* Exact arithmetic on T.                                                  *)
(***************************************************************************)
IAbs(i) == IF i < 0 THEN -i ELSE i

RECURSIVE GCD(_, _)
GCD(m, k) == IF k = 0 THEN m ELSE GCD(k, m % k)

Rat(p, q) ==
  LET g == GCD(IAbs(p), IAbs(q))
      s == IF q < 0 THEN -1 ELSE 1
  IN  <<s * (p \div g), s * (q \div g)>>

Zero == Rat(0, 1)
One == Rat(1, 1)
MinusOne == Rat(-1, 1)
Two == Rat(2, 1)

Add(u, v) ==
  LET g == GCD(u[2], v[2])
  IN  Rat(u[1] * (v[2] \div g) + v[1] * (u[2] \div g), (u[2] \div g) * v[2])
Neg(u) == <<-u[1], u[2]>>
Sub(u, v) == Add(u, Neg(v))
Mul(u, v) ==
  LET g1 == GCD(IAbs(u[1]), v[2])
      g2 == GCD(IAbs(v[1]), u[2])
  IN  Rat((u[1] \div g1) * (v[1] \div g2), (u[2] \div g2) * (v[2] \div g1))
\* u / v, v # 0
Div(u, v) == Mul(u, Rat(v[2], v[1]))
\* std::fabs
fabs(u) == <<IAbs(u[1]), u[2]>>
Leq(u, v) == u[1] * v[2] <= v[1] * u[2]
Lt(u, v) == u[1] * v[2] < v[1] * u[2]


(***************************************************************************)
(* Inputs.                                                                 *)
(***************************************************************************)
\* The tolerance SMALL of each version.
SMALL(v) == IF v = "eps" THEN Rat(1, EpsDen) ELSE Rat(1, FixedDen)

\* A non-zero input below both tolerances.
Tiny == Rat(1, 2 * EpsDen)

FineVals == {MinusOne, Zero, One, Two, Tiny}
Grid(n) == IF n <= FineDim THEN FineVals ELSE {Zero, One}
BGrid(n) == IF n <= FineDim THEN {Zero, One, Tiny} ELSE {Zero, One}

Idx(n) == 0 .. n - 1

\* The worked example of dimension 2: A = [[4,3],[6,3]], b = [1,2].
ScenarioMatrix ==
  [i \in Idx(2) |-> [k \in Idx(2) |->
     IF k = 1 THEN Rat(3, 1) ELSE IF i = 0 THEN Rat(4, 1) ELSE Rat(6, 1)]]
ScenarioRhs == [i \in Idx(2) |-> IF i = 0 THEN One ELSE Two]

Matrices(n) ==
  [Idx(n) -> [Idx(n) -> Grid(n)]] \cup (IF n = 2 THEN {ScenarioMatrix} ELSE {})
Vectors(n) ==
  [Idx(n) -> BGrid(n)] \cup (IF n = 2 THEN {ScenarioRhs} ELSE {})

\* VECTOR<T>(n), VECTOR<std::size_t>(n), MATRIX<T>(n, n): value-initialised.
ZeroVec(n) == [i \in Idx(n) |-> Zero]
ZeroIdx(n) == [i \in Idx(n) |-> 0]
ZeroMat(n) == [i \in Idx(n) |-> [k \in Idx(n) |-> Zero]]

\* What the caller's pivot vector may hold before the call: nothing, or
\* stale entries of another size.
CallerIndx(n) == {[i \in {} |-> 0], [i \in 0 .. n |-> n + i]}

VARIABLES
  ver,      \* which version of the kernel is in use
  ndim,     \* dimension
  a0,       \* the caller's matrix as it was before the first call
  a,        \* the caller's matrix storage
  vv,       \* scale factors (scratch of luDecomposition)
  indx,     \* pivot vector
  d,        \* parity (the "eps" version's local d)
  j,        \* column counter of luDecomposition / of inverseNoLU
  imax,     \* pivot row found for column j
  pc,       \* position of the running call
  call,     \* entry point the caller used
  ncalls,   \* calls of luDecomposition made so far
  ret,      \* what luDecomposition handed back to its caller
  rowOf,    \* rowOf[i]: index of the input row now stored in row i
  clamped,  \* columns whose diagonal was replaced by SMALL
  b0,       \* right-hand side as passed to backSubstitution
  b,        \* the caller's right-hand side storage
  x,        \* solution vector of the five-argument backSubstitution
  aliased,  \* whether the caller passed one vector as both b and x
  col,      \* inverseNoLU's column buffer
  inv_a,    \* inverseNoLU's result buffer
  peer      \* a second caller's luDecomposition on a matrix of its own

vars == <<ver, ndim, a0, a, vv, indx, d, j, imax, pc, call, ncalls, ret,
          rowOf, clamped, b0, b, x, aliased, col, inv_a, peer>>

luVars == <<vv, indx, d, j, imax, ret, rowOf, clamped>>
solveVars == <<b0, b, x, aliased>>
invVars == <<col, inv_a>>
\* What no step of this caller's calls writes: the build, the inputs and
\* the storage of the second caller.
inputVars == <<ver, ndim, a0, peer>>
\* The storage of this caller.
ownVars == <<a, vv, indx, d, j, imax, pc, call, ncalls, ret, rowOf, clamped,
             b0, b, x, aliased, col, inv_a>>

\* The second caller's matrix: ones on the anti-diagonal.
PeerMatrix(n) == [i \in Idx(n) |-> [k \in Idx(n) |-> IF i + k = n - 1 THEN One ELSE Zero]]

\* The second caller before its call: its matrix and pivot vector, and the
\* locals of the call it is going to make.
PeerIdle(n) ==
  [pc |-> "idle", a0 |-> PeerMatrix(n), a |-> PeerMatrix(n), vv |-> ZeroVec(n),
   indx |-> ZeroIdx(n), d |-> One, j |-> 0, imax |-> 0, ret |-> "none"]

\* The caller's storage and the locals before the first call, for the
\* build ver, the dimension ndim and the input a0.
InitStorage ==
  /\ a = a0
  /\ indx \in CallerIndx(ndim)
  /\ vv = ZeroVec(ndim)
  /\ d = One
  /\ j = 0
  /\ imax = 0
  /\ pc = "idle"
  /\ call = "none"
  /\ ncalls = 0
  /\ ret = "none"
  /\ rowOf = [i \in Idx(ndim) |-> i]
  /\ clamped = {}
  /\ b0 = ZeroVec(ndim)
  /\ b = ZeroVec(ndim)
  /\ x = ZeroVec(ndim)
  /\ aliased = FALSE
  /\ col = ZeroVec(ndim)
  /\ inv_a = ZeroMat(ndim)
  /\ peer = PeerIdle(ndim)

Init ==
  /\ ver \in {"eps", "fixed"}
  /\ ndim \in 1 .. MaxN
  /\ a0 \in Matrices(ndim)
  /\ InitStorage

(***************************************************************************)
(* luDecomposition.                                                        *)
(***************************************************************************)
\* Entry of luDecomposition: the locals are set up and indx is replaced by
\* a fresh vector of ndim entries.
luEnter ==
  /\ vv' = ZeroVec(ndim)
  /\ indx' = ZeroIdx(ndim)
  /\ d' = One
  /\ j' = 0
  /\ imax' = 0
  /\ ncalls' = ncalls + 1
  /\ pc' = "scan"

\* The caller calls luDecomposition(a, ndim, indx); after a SingularMatrix
\* error it may call again on the same storage.
CallDecompose ==
  /\ \/ pc = "idle"
     \/ pc = "raised" /\ call = "luDecomposition" /\ ncalls < MaxCalls
  /\ call' = "luDecomposition"
  /\ luEnter
  /\ UNCHANGED <<inputVars, a, ret, rowOf, clamped, solveVars, invVars>>

\* aamax of row i: the largest fabs(a(i,k)), folded as the code folds it.
RECURSIVE RowMaxTo(_, _, _)
RowMaxTo(m, i, k) ==
  IF k = 0 THEN Zero
  ELSE LET aamax == RowMaxTo(m, i, k - 1)
           dum == fabs(m[i][k - 1])
       IN  IF Lt(aamax, dum) THEN dum ELSE aamax

RowMax(m, i) == RowMaxTo(m, i, ndim)

\* Variant of SingularRow: only an exact zero counts as singular.
SingularRow_ExactZero(aamax, v) == aamax = Zero

\* The test that throws std::domain_error.
SingularRow(aamax, v) == Leq(aamax, SMALL(v))

\* Rows the scan reaches before it throws or ends.
ScanRows(m, v) ==
  {i \in Idx(ndim) : \A r \in 0 .. i - 1 : ~SingularRow(RowMax(m, r), v)}

\* Variant of luScan: the scaling is applied to the rows of a as the scan
\* goes, instead of being kept in vv.
luScan_InPlace ==
  /\ pc = "scan"
  /\ LET reached == ScanRows(a, ver)
         bad == {i \in reached : SingularRow(RowMax(a, i), ver)}
     IN  /\ a' = [i \in Idx(ndim) |->
                    IF i \in reached \ bad
                    THEN [k \in Idx(ndim) |-> Div(a[i][k], RowMax(a, i))]
                    ELSE a[i]]
         /\ vv' = [i \in Idx(ndim) |-> IF i \in reached \ bad THEN One ELSE vv[i]]
         /\ pc' = IF bad # {} THEN "raised" ELSE "column"
  /\ UNCHANGED <<inputVars, indx, d, j, imax, call, ncalls, ret, rowOf,
                 clamped, solveVars, invVars>>

\* The scale-factor loop: one row after the other; the first row whose
\* aamax <= SMALL throws.
luScan ==
  /\ pc = "scan"
  /\ LET reached == ScanRows(a, ver)
         bad == {i \in reached : SingularRow(RowMax(a, i), ver)}
     IN  /\ vv' = [i \in Idx(ndim) |->
                     IF i \in reached \ bad THEN Div(One, RowMax(a, i))
                     ELSE vv[i]]
         /\ pc' = IF bad # {} THEN "raised" ELSE "column"
  /\ UNCHANGED <<inputVars, a, indx, d, j, imax, call, ncalls, ret, rowOf,
                 clamped, solveVars, invVars>>

(***************************************************************************)
(* One column of luDecomposition.                                          *)
(***************************************************************************)
\* n of the progress output: std::size_t n = ndim/100.0 * 10.0.
ProgressInterval(n) == (n * 10) \div 100

\* sum -= a(i,k) * c(k) for k = 0 .. upto-1, from sum = start.
RECURSIVE DotSub(_, _, _, _)
DotSub(start, row, c, upto) ==
  IF upto = 0 THEN start
  ELSE Sub(DotSub(start, row, c, upto - 1), Mul(row[upto - 1], c[upto - 1]))

Min(p, q) == IF p <= q THEN p ELSE q

\* Column jc after the two elimination loops: the betas above the diagonal
\* (k < i) and the candidates on and below it (k < jc), each computed from
\* the entries of the column already overwritten.
RECURSIVE ElimTo(_, _, _)
ElimTo(m, jc, upto) ==
  IF upto = 0 THEN [i \in {} |-> Zero]
  ELSE LET c == ElimTo(m, jc, upto - 1)
           i == upto - 1
           sum == DotSub(m[i][jc], m[i], c, Min(i, jc))
       IN  [r \in 0 .. i |-> IF r = i THEN sum ELSE c[r]]

ElimColumn(m, jc) == ElimTo(m, jc, ndim)

\* Variant of BetterPivot: strict comparison.
BetterPivot_Strict(dum, aamax) == Lt(aamax, dum)

\* The pivot test of the search loop.
BetterPivot(dum, aamax) == Leq(aamax, dum)

\* Variant of PivotFrom: the candidates are compared without their scale
\* factors.
RECURSIVE PivotFrom_Unscaled(_, _, _, _, _)
PivotFrom_Unscaled(c, sv, i, aamax, im) ==
  IF i = ndim THEN im
  ELSE LET dum == fabs(c[i])
       IN  IF BetterPivot(dum, aamax) THEN PivotFrom_Unscaled(c, sv, i + 1, dum, i)
           ELSE PivotFrom_Unscaled(c, sv, i + 1, aamax, im)

\* The pivot search over rows i .. ndim-1 of the candidates c.
RECURSIVE PivotFrom(_, _, _, _, _)
PivotFrom(c, sv, i, aamax, im) ==
  IF i = ndim THEN im
  ELSE LET dum == Mul(sv[i], fabs(c[i]))
       IN  IF BetterPivot(dum, aamax) THEN PivotFrom(c, sv, i + 1, dum, i)
           ELSE PivotFrom(c, sv, i + 1, aamax, im)

PivotRow(c, sv, jc, im) == PivotFrom(c, sv, jc, Zero, im)

\* The progress output and the elimination and pivot search of column j.
\* With ndim < 10 the interval n is 0 and j % n is undefined: the build
\* either traps or goes on (the output itself changes no state).
luColumn ==
  /\ pc = "column"
  /\ \/ /\ ver = "eps"
        /\ ProgressInterval(ndim) = 0
        /\ pc' = "aborted"
        /\ UNCHANGED <<a, imax>>
     \/ /\ LET c == ElimColumn(a, j)
           IN  /\ a' = [i \in Idx(ndim) |-> [a[i] EXCEPT ![j] = c[i]]]
               /\ imax' = PivotRow(c, vv, j, IF ver = "eps" THEN 0 ELSE imax)
        /\ pc' = "swap"
  /\ UNCHANGED <<inputVars, vv, indx, d, j, call, ncalls, ret, rowOf,
                 clamped, solveVars, invVars>>

\* Rows r1 and r2 of f exchanged.
SwapRows(f, r1, r2) == [f EXCEPT ![r1] = f[r2], ![r2] = f[r1]]

\* Variant of SwapScale: the scale factors are left as they are.
SwapScale_Omitted(sv, im, jc) == sv

\* vv[imax] = vv[j]
SwapScale(sv, im, jc) == [sv EXCEPT ![im] = sv[jc]]

\* The number of elements of the row buffer p of the "fixed" version,
\* constructed by VECTOR<T> p{}.
RowBufferLen == 0

\* The row interchange.  The "fixed" version copies row imax into p, a
\* vector it constructed empty: p[k] is outside p, and the build either
\* faults or completes the copy.
luSwap ==
  /\ pc = "swap"
  /\ \/ /\ j # imax
        /\ ver = "fixed"
        /\ RowBufferLen < ndim
        /\ pc' = "aborted"
        /\ UNCHANGED <<a, vv, d, rowOf>>
     \/ /\ j # imax
        /\ a' = SwapRows(a, imax, j)
        /\ vv' = SwapScale(vv, imax, j)
        /\ d' = IF ver = "eps" THEN Neg(d) ELSE d
        /\ rowOf' = SwapRows(rowOf, imax, j)
        /\ pc' = "finish"
     \/ /\ j = imax
        /\ pc' = "finish"
        /\ UNCHANGED <<a, vv, d, rowOf>>
  /\ UNCHANGED <<inputVars, indx, j, imax, call, ncalls, ret, clamped,
                 solveVars, invVars>>

\* Whether the diagonal p is replaced by SMALL.
ClampFires(p, v) ==
  IF v = "eps" THEN Leq(fabs(p), SMALL(v)) ELSE Leq(p, Zero)

Clamp(p, v) == IF ClampFires(p, v) THEN SMALL(v) ELSE p

\* Variant of RecordPivot: the column is recorded instead of the pivot row.
RecordPivot_Column(ix, jc, im) == [ix EXCEPT ![jc] = jc]

\* indx[j] = imax
RecordPivot(ix, jc, im) == [ix EXCEPT ![jc] = im]

\* Variant of ScaleColumn: the sub-diagonal entries are multiplied by the
\* pivot instead of its reciprocal.
ScaleColumn_Times(m, jc, piv) ==
  [i \in Idx(ndim) |->
     IF i = jc THEN [m[i] EXCEPT ![jc] = piv]
     ELSE IF i > jc /\ jc # ndim - 1
          THEN [m[i] EXCEPT ![jc] = Mul(m[i][jc], piv)]
          ELSE m[i]]

\* Variant of ScaleColumn: the clamped pivot divides the sub-diagonal
\* entries but is not stored on the diagonal.
ScaleColumn_KeepDiagonal(m, jc, piv) ==
  [i \in Idx(ndim) |->
     IF i > jc /\ jc # ndim - 1
     THEN [m[i] EXCEPT ![jc] = Mul(m[i][jc], Div(One, piv))]
     ELSE m[i]]

\* Column jc of m with the diagonal set to piv and, unless jc is the last
\* column, the entries below it multiplied by 1/piv.
ScaleColumn(m, jc, piv) ==
  [i \in Idx(ndim) |->
     IF i = jc THEN [m[i] EXCEPT ![jc] = piv]
     ELSE IF i > jc /\ jc # ndim - 1
          THEN [m[i] EXCEPT ![jc] = Mul(m[i][jc], Div(One, piv))]
          ELSE m[i]]

\* The end of column j: the permutation entry, the clamp of the diagonal
\* and the division of the sub-diagonal entries.
luFinish ==
  /\ pc = "finish"
  /\ indx' = RecordPivot(indx, j, imax)
  /\ a' = ScaleColumn(a, j, Clamp(a[j][j], ver))
  /\ clamped' = IF ClampFires(a[j][j], ver) THEN clamped \cup {j} ELSE clamped
  /\ j' = j + 1
  /\ pc' = IF j + 1 = ndim THEN "return" ELSE "column"
  /\ UNCHANGED <<inputVars, vv, d, imax, call, ncalls, ret, rowOf,
                 solveVars, invVars>>

\* What the caller receives for the parity dd.  The "eps" version returns
\* the T value d as std::size_t: 1.0 becomes 1, and the conversion of -1.0
\* is undefined (builds yield the wrapped value or zero).  The "fixed"
\* version returns nothing.
Returned(dd, v) ==
  IF v = "fixed" THEN {"void"}
  ELSE IF dd = One THEN {"+1"} ELSE {"SIZE_MAX", "0"}

luReturn ==
  /\ pc = "return"
  /\ ret' \in Returned(d, ver)
  /\ pc' = "decomposed"
  /\ UNCHANGED <<inputVars, a, vv, indx, d, j, imax, call, ncalls, rowOf,
                 clamped, solveVars, invVars>>

(***************************************************************************)
(* backSubstitution.                                                       *)
(***************************************************************************)
\* sum -= row[k] * v[k] for k = lo .. hi-1, from sum = start.
RECURSIVE DotSubRange(_, _, _, _, _)
DotSubRange(start, row, v, lo, hi) ==
  IF hi <= lo THEN start
  ELSE Sub(DotSubRange(start, row, v, lo, hi - 1), Mul(row[hi - 1], v[hi - 1]))

\* The test that ends the skipping of leading entries ("eps" version).
LeadingEntry(sum, v) == Lt(SMALL(v), fabs(sum))

\* "eps" version, first loop, iterations 0 .. upto-1: swap i of the
\* permutation interleaved with forward-substitution step i; ii - 1 is the
\* first index whose right-hand side passed the LeadingEntry test.
RECURSIVE PermuteForwardTo(_, _, _, _)
PermuteForwardTo(m, ix, bb, upto) ==
  IF upto = 0 THEN [b |-> bb, ii |-> 0]
  ELSE LET s == PermuteForwardTo(m, ix, bb, upto - 1)
           i == upto - 1
           l == ix[i]
           sum0 == s.b[l]
           b1 == [s.b EXCEPT ![l] = s.b[i]]
           sum == IF s.ii # 0 THEN DotSubRange(sum0, m[i], b1, s.ii - 1, i)
                  ELSE sum0
           ii1 == IF s.ii # 0 THEN s.ii
                  ELSE IF LeadingEntry(sum0, "eps") THEN i + 1 ELSE 0
       IN  [b |-> [b1 EXCEPT ![i] = sum], ii |-> ii1]

\* "fixed" version: the permutation loop, swaps 0 .. upto-1.
RECURSIVE PermuteTo(_, _, _)
PermuteTo(ix, xx, upto) ==
  IF upto = 0 THEN xx
  ELSE LET v == PermuteTo(ix, xx, upto - 1)
           i == upto - 1
           l == ix[i]
       IN  [[v EXCEPT ![l] = v[i]] EXCEPT ![i] = v[l]]

\* "fixed" version: the forward loop, rows 0 .. upto-1.
RECURSIVE ForwardTo(_, _, _)
ForwardTo(m, xx, upto) ==
  IF upto = 0 THEN xx
  ELSE LET v == ForwardTo(m, xx, upto - 1)
           i == upto - 1
       IN  [v EXCEPT ![i] = DotSubRange(v[i], m[i], v, 0, i)]

\* Variant of BackwardFrom: the division by the diagonal is left out.
RECURSIVE BackwardFrom_NoDivide(_, _, _)
BackwardFrom_NoDivide(m, bb, i) ==
  IF i >= ndim THEN bb
  ELSE LET v == BackwardFrom_NoDivide(m, bb, i + 1)
       IN  [v EXCEPT ![i] = DotSubRange(v[i], m[i], v, i + 1, ndim)]

\* "eps" version: the backward loop, for (int i = ndim-1; i >= 0; --i),
\* rows ndim-1 down to i.
RECURSIVE BackwardFrom(_, _, _)
BackwardFrom(m, bb, i) ==
  IF i >= ndim THEN bb
  ELSE LET v == BackwardFrom(m, bb, i + 1)
           sum == DotSubRange(v[i], m[i], v, i + 1, ndim)
       IN  [v EXCEPT ![i] = Div(sum, m[i][i])]

\* "fixed" version: the columns the inner loop
\* for (j = i+1; j < ndim; --j) visits: none when i+1 = ndim, else i+1 down
\* to 0, after which j wraps around and the loop ends.
FixedInnerHi(i) == IF i + 1 < ndim THEN i + 2 ELSE 0

\* "fixed" version: the backward loop, for (i = ndim-1; i > 0; --i), rows
\* ndim-1 down to i (i >= 1).
RECURSIVE FixedBackwardFrom(_, _, _)
FixedBackwardFrom(m, xx, i) ==
  IF i >= ndim THEN xx
  ELSE LET v == FixedBackwardFrom(m, xx, i + 1)
           sum == DotSubRange(v[i], m[i], v, 0, FixedInnerHi(i))
       IN  [v EXCEPT ![i] = Div(sum, m[i][i])]

\* The whole in-place backSubstitution of the "eps" version.
backSubstitution(m, ix, bb) ==
  BackwardFrom(m, PermuteForwardTo(m, ix, bb, ndim).b, 0)

\* The caller calls backSubstitution on the decomposed matrix with a
\* right-hand side bb.  The "fixed" version takes b and x, which the caller
\* may pass as one vector, and begins with the copy x = VECTOR<T>{b}.
CallSolve ==
  /\ pc = "decomposed"
  /\ call = "luDecomposition"
  /\ \E bb \in Vectors(ndim) :
       /\ b0' = bb
       /\ b' = bb
       /\ x' = IF ver = "fixed" THEN bb ELSE x
  /\ aliased' \in (IF ver = "fixed" THEN BOOLEAN ELSE {FALSE})
  /\ call' = "backSubstitution"
  /\ pc' = "forward"
  /\ UNCHANGED <<inputVars, a, luVars, ncalls, invVars>>

\* Permutation and forward substitution.
solveForward ==
  /\ pc = "forward"
  /\ IF ver = "eps"
     THEN /\ b' = PermuteForwardTo(a, indx, b, ndim).b
          /\ x' = x
     ELSE /\ x' = ForwardTo(a, PermuteTo(indx, x, ndim), ndim)
          /\ b' = IF aliased THEN x' ELSE b
  /\ pc' = "backward"
  /\ UNCHANGED <<inputVars, a, luVars, call, ncalls, b0, aliased, invVars>>

\* Backward substitution.
solveBackward ==
  /\ pc = "backward"
  /\ IF ver = "eps"
     THEN /\ b' = BackwardFrom(a, b, 0)
          /\ x' = x
     ELSE /\ x' = FixedBackwardFrom(a, x, 1)
          /\ b' = IF aliased THEN x' ELSE b
  /\ pc' = "solved"
  /\ UNCHANGED <<inputVars, a, luVars, call, ncalls, b0, aliased, invVars>>

(***************************************************************************)
(* inverseNoLU and inverse.                                                *)
(***************************************************************************)
\* The unit vector e_k as inverseNoLU sets it up in col.
UnitVec(k) == [i \in Idx(ndim) |-> IF i = k THEN One ELSE Zero]

\* inv_a(i,k) = col[i] for all i
StoreColumn(m, k, c) == [i \in Idx(ndim) |-> [m[i] EXCEPT ![k] = c[i]]]

\* The caller calls inverseNoLU(a, ndim, indx) on the decomposed matrix.
\* In the "fixed" version the body calls backSubstitution with four
\* arguments, which that file does not declare: the call has no
\* instantiation.
CallInvert ==
  /\ pc = "decomposed"
  /\ call = "luDecomposition"
  /\ call' = "inverseNoLU"
  /\ \/ /\ ver = "eps"
        /\ pc' = "invert"
        /\ j' = 0
        /\ col' = ZeroVec(ndim)
        /\ inv_a' = ZeroMat(ndim)
     \/ /\ ver = "fixed"
        /\ pc' = "illformed"
        /\ UNCHANGED <<j, col, inv_a>>
  /\ UNCHANGED <<inputVars, a, vv, indx, d, imax, ncalls, ret, rowOf,
                 clamped, solveVars>>

\* The caller calls inverse(a, ndim).  The "eps" version constructs indx
\* and enters luDecomposition.  The "fixed" version passes
\* inverseNoLU(a, indx, ndim), with the last two arguments exchanged, for
\* which no instantiation exists.
CallInverse ==
  /\ pc = "idle"
  /\ call' = "inverse"
  /\ \/ /\ ver = "eps"
        /\ luEnter
     \/ /\ ver = "fixed"
        /\ pc' = "illformed"
        /\ UNCHANGED <<vv, indx, d, j, imax, ncalls>>
  /\ UNCHANGED <<inputVars, a, ret, rowOf, clamped, solveVars, invVars>>

\* inverse goes on to inverseNoLU once luDecomposition has returned.
inverseChain ==
  /\ pc = "decomposed"
  /\ call = "inverse"
  /\ pc' = "invert"
  /\ j' = 0
  /\ col' = ZeroVec(ndim)
  /\ inv_a' = ZeroMat(ndim)
  /\ UNCHANGED <<inputVars, a, vv, indx, d, imax, call, ncalls, ret, rowOf,
                 clamped, solveVars>>

\* Variant of invertColumn: the solved column is written straight into the
\* caller's matrix instead of the buffer inv_a.
invertColumn_InPlace ==
  /\ pc = "invert"
  /\ LET c == backSubstitution(a, indx, UnitVec(j))
     IN  /\ col' = c
         /\ a' = StoreColumn(a, j, c)
         /\ inv_a' = StoreColumn(inv_a, j, c)
  /\ j' = j + 1
  /\ pc' = IF j + 1 = ndim THEN "copy" ELSE "invert"
  /\ UNCHANGED <<inputVars, vv, indx, d, imax, call, ncalls, ret, rowOf,
                 clamped, solveVars>>

\* Column j of the inverse: col is reset to e_j, solved in place and stored
\* in inv_a.
invertColumn ==
  /\ pc = "invert"
  /\ LET c == backSubstitution(a, indx, UnitVec(j))
     IN  /\ col' = c
         /\ inv_a' = StoreColumn(inv_a, j, c)
  /\ j' = j + 1
  /\ pc' = IF j + 1 = ndim THEN "copy" ELSE "invert"
  /\ UNCHANGED <<inputVars, a, vv, indx, d, imax, call, ncalls, ret, rowOf,
                 clamped, solveVars>>

\* The final copy of inv_a over the caller's matrix.
invertCopy ==
  /\ pc = "copy"
  /\ a' = inv_a
  /\ pc' = "inverted"
  /\ UNCHANGED <<inputVars, luVars, call, ncalls, solveVars, invVars>>

Next ==
  \/ CallDecompose
  \/ CallInverse
  \/ luScan
  \/ luColumn
  \/ luSwap
  \/ luFinish
  \/ luReturn
  \/ CallSolve
  \/ solveForward
  \/ solveBackward
  \/ CallInvert
  \/ inverseChain
  \/ invertColumn
  \/ invertCopy

Spec == Init /\ [][Next]_vars

(***************************************************************************)
(* Two callers at once: while this caller's calls run, a second caller     *)
(* (another thread of the same build) runs luDecomposition on its own      *)
(* matrix and pivot vector.  The steps are those of luDecomposition above, *)
(* on the second caller's storage; the function has no static or global    *)
(* object but the constant SMALL.                                          *)
(***************************************************************************)
peerCall ==
  /\ peer.pc = "idle"
  /\ peer' = [peer EXCEPT !.pc = "scan", !.vv = ZeroVec(ndim),
                          !.indx = ZeroIdx(ndim), !.d = One, !.j = 0, !.imax = 0]
  /\ UNCHANGED <<ver, ndim, a0, ownVars>>

\* Variant of peerScan: the scale factors are kept in one vector that all
\* calls share (a static vv) instead of a local one.
peerScan_SharedScale ==
  /\ peer.pc = "scan"
  /\ LET reached == ScanRows(peer.a, ver)
         bad == {i \in reached : SingularRow(RowMax(peer.a, i), ver)}
         sv == [i \in Idx(ndim) |->
                  IF i \in reached \ bad THEN Div(One, RowMax(peer.a, i))
                  ELSE peer.vv[i]]
     IN  /\ peer' = [peer EXCEPT !.vv = sv,
                                 !.pc = IF bad # {} THEN "raised" ELSE "column"]
         /\ vv' = sv
  /\ UNCHANGED <<ver, ndim, a0, a, indx, d, j, imax, pc, call, ncalls, ret,
                 rowOf, clamped, solveVars, invVars>>

peerScan ==
  /\ peer.pc = "scan"
  /\ LET reached == ScanRows(peer.a, ver)
         bad == {i \in reached : SingularRow(RowMax(peer.a, i), ver)}
         sv == [i \in Idx(ndim) |->
                  IF i \in reached \ bad THEN Div(One, RowMax(peer.a, i))
                  ELSE peer.vv[i]]
     IN  peer' = [peer EXCEPT !.vv = sv,
                              !.pc = IF bad # {} THEN "raised" ELSE "column"]
  /\ UNCHANGED <<ver, ndim, a0, ownVars>>

peerColumn ==
  /\ peer.pc = "column"
  /\ \/ /\ ver = "eps"
        /\ ProgressInterval(ndim) = 0
        /\ peer' = [peer EXCEPT !.pc = "aborted"]
     \/ LET c == ElimColumn(peer.a, peer.j)
        IN  peer' = [peer EXCEPT
                       !.a = [i \in Idx(ndim) |-> [peer.a[i] EXCEPT ![peer.j] = c[i]]],
                       !.imax = PivotRow(c, peer.vv, peer.j,
                                         IF ver = "eps" THEN 0 ELSE peer.imax),
                       !.pc = "swap"]
  /\ UNCHANGED <<ver, ndim, a0, ownVars>>

peerSwap ==
  /\ peer.pc = "swap"
  /\ \/ /\ peer.j # peer.imax
        /\ ver = "fixed"
        /\ peer' = [peer EXCEPT !.pc = "aborted"]
     \/ /\ peer.j # peer.imax
        /\ peer' = [peer EXCEPT
                       !.a = SwapRows(peer.a, peer.imax, peer.j),
                       !.vv = SwapScale(peer.vv, peer.imax, peer.j),
                       !.d = IF ver = "eps" THEN Neg(peer.d) ELSE peer.d,
                       !.pc = "finish"]
     \/ /\ peer.j = peer.imax
        /\ peer' = [peer EXCEPT !.pc = "finish"]
  /\ UNCHANGED <<ver, ndim, a0, ownVars>>

peerFinish ==
  /\ peer.pc = "finish"
  /\ peer' = [peer EXCEPT
                 !.indx = RecordPivot(peer.indx, peer.j, peer.imax),
                 !.a = ScaleColumn(peer.a, peer.j, Clamp(peer.a[peer.j][peer.j], ver)),
                 !.j = peer.j + 1,
                 !.pc = IF peer.j + 1 = ndim THEN "return" ELSE "column"]
  /\ UNCHANGED <<ver, ndim, a0, ownVars>>

peerReturn ==
  /\ peer.pc = "return"
  /\ \E r \in Returned(peer.d, ver) :
       peer' = [peer EXCEPT !.ret = r, !.pc = "decomposed"]
  /\ UNCHANGED <<ver, ndim, a0, ownVars>>

PeerNext ==
  \/ peerCall
  \/ peerScan
  \/ peerColumn
  \/ peerSwap
  \/ peerFinish
  \/ peerReturn

\* The rows of this caller's matrix when two callers run.
ConcRows ==
  {[k \in Idx(2) |-> IF k = 0 THEN Two ELSE One],
   [k \in Idx(2) |-> One],
   [k \in Idx(2) |-> IF k = 0 THEN Zero ELSE One],
   [k \in Idx(2) |-> IF k = 0 THEN One ELSE Zero],
   [k \in Idx(2) |-> Zero]}

ConcInit ==
  /\ ver \in {"eps", "fixed"}
  /\ ndim = 2
  /\ a0 \in [Idx(2) -> ConcRows]
  /\ InitStorage

ConcNext == Next \/ PeerNext

ConcSpec == ConcInit /\ [][ConcNext]_vars

(***************************************************************************)
(* Notions the properties are stated in.                                   *)
(***************************************************************************)
\* luDecomposition has returned and a still holds the factors.
LUDone == pc \in {"decomposed", "forward", "backward", "solved", "invert", "copy"}

\* The row scan of the running call is over.
ScanDone == pc \notin {"idle", "scan", "illformed"}

\* Row i of m has no entry above the tolerance in magnitude.
RowBelowTolerance(m, i, v) == \A k \in Idx(ndim) : Leq(fabs(m[i][k]), SMALL(v))

IdentityIdx == [i \in Idx(ndim) |-> i]
IdentityMat == [i \in Idx(ndim) |-> [k \in Idx(ndim) |-> IF i = k THEN One ELSE Zero]]

\* The recorded swaps replayed on the identity: position i <-> ix[i], i = 0, 1, ...
Replay(ix) == PermuteTo(ix, IdentityIdx, ndim)

\* Number of columns with a row swap recorded.
SwapCount(ix) == Cardinality({k \in Idx(ndim) : ix[k] # k})

RECURSIVE SumOver(_, _)
SumOver(S, f) ==
  IF S = {} THEN Zero
  ELSE LET e == CHOOSE e \in S : TRUE IN Add(f[e], SumOver(S \ {e}, f))

RECURSIVE ProdTo(_, _)
ProdTo(f, upto) == IF upto = 0 THEN One ELSE Mul(ProdTo(f, upto - 1), f[upto - 1])

MatMul(m1, m2) ==
  [i \in Idx(ndim) |-> [k \in Idx(ndim) |->
     SumOver(Idx(ndim), [r \in Idx(ndim) |-> Mul(m1[i][r], m2[r][k])])]]

MatVec(m, v) ==
  [i \in Idx(ndim) |-> SumOver(Idx(ndim), [r \in Idx(ndim) |-> Mul(m[i][r], v[r])])]

\* The factors stored in m: L with its implicit unit diagonal, and U.
LowerOf(m) ==
  [i \in Idx(ndim) |-> [k \in Idx(ndim) |->
     IF k < i THEN m[i][k] ELSE IF k = i THEN One ELSE Zero]]
UpperOf(m) ==
  [i \in Idx(ndim) |-> [k \in Idx(ndim) |-> IF k >= i THEN m[i][k] ELSE Zero]]

\* The determinant, by the Leibniz formula.
PermSign(q) ==
  LET inv == {pr \in Idx(ndim) \X Idx(ndim) : pr[1] < pr[2] /\ q[pr[1]] > q[pr[2]]}
  IN  IF Cardinality(inv) % 2 = 0 THEN One ELSE MinusOne
Det(m) ==
  LET Q == Permutations(Idx(ndim))
  IN  SumOver(Q, [q \in Q |-> Mul(PermSign(q), ProdTo([i \in Idx(ndim) |-> m[i][q[i]]], ndim))])

\* Every entry of m is zero or above both tolerances in magnitude.
Regular(m) == \A i, k \in Idx(ndim) : m[i][k] = Zero \/ Lt(SMALL("fixed"), fabs(m[i][k]))
RegularVec(v) == \A i \in Idx(ndim) : v[i] = Zero \/ Lt(SMALL("fixed"), fabs(v[i]))
NonSingular(m) == Regular(m) /\ Det(m) # Zero

\* The solution vector backSubstitution hands back.
Solution == IF ver = "eps" THEN b ELSE x

(***************************************************************************)
(* Properties.                                                             *)
(***************************************************************************)
\* C1: once the row scan of luDecomposition has run on an input with a row
\* whose largest magnitude is at or below the tolerance (a zero row, the
\* zero matrix), the call has raised SingularMatrix; in both versions and
\* for every dimension.
C1_SingularRowRaises ==
  (ScanDone /\ \E i \in Idx(ndim) : RowBelowTolerance(a0, i, ver)) => pc = "raised"

\* C1 witness: a raise on a row that is not zero but below the tolerance,
\* in a matrix whose other row is regular.
C1_Witness ==
  /\ pc = "raised"
  /\ ndim = 2
  /\ a0[0] = [k \in Idx(ndim) |-> One]
  /\ a0[1] = [k \in Idx(ndim) |-> IF k = 0 THEN Tiny ELSE Zero]

\* C2: when luDecomposition has raised SingularMatrix no elimination step
\* has run: the matrix is the input, no column step has recorded a pivot
\* (indx is the fresh vector of the entry, the column counter is 0, no row
\* was moved); and a call repeated on the same matrix raises again and
\* leaves the matrix as it is.
C2_RaiseLeavesInput ==
  /\ [](pc = "raised" =>
          /\ a = a0
          /\ indx = ZeroIdx(ndim)
          /\ j = 0
          /\ rowOf = IdentityIdx
          /\ clamped = {})
  /\ [][(pc = "scan" /\ ncalls > 1) => (pc' = "raised" /\ a' = a0)]_vars

\* C2 witness: a second call on a matrix with a zero second row has raised
\* again.
C2_Witness ==
  /\ pc = "raised"
  /\ ncalls = 2
  /\ ndim = 3
  /\ a0[0] = [k \in Idx(ndim) |-> One]
  /\ a0[1] = [k \in Idx(ndim) |-> Zero]

\* C3: the row scan is the only place luDecomposition raises: an input
\* whose rows all exceed the tolerance is never answered with
\* SingularMatrix; and at the end of a column a pivot at or below the
\* tolerance in magnitude has been replaced by the tolerance value.
C3_OnlyScanRaisesPivotClamped ==
  /\ []((ScanDone /\ \A i \in Idx(ndim) : ~RowBelowTolerance(a0, i, ver))
          => pc # "raised")
  /\ [][pc # "scan" => pc' # "raised"]_vars
  /\ [][(pc = "finish" /\ Leq(fabs(a[j][j]), SMALL(ver)))
          => a'[j][j] = SMALL(ver)]_vars

\* The part of C3 that concerns raising alone.
OnlyScanRaises ==
  /\ []((ScanDone /\ \A i \in Idx(ndim) : ~RowBelowTolerance(a0, i, ver))
          => pc # "raised")
  /\ [][pc # "scan" => pc' # "raised"]_vars

\* The clamp part of C3 in the "eps" version.
EpsPivotClamped ==
  [][(ver = "eps" /\ pc = "finish" /\ Leq(fabs(a[j][j]), SMALL(ver)))
       => a'[j][j] = SMALL(ver)]_vars

\* C4: after every successful luDecomposition the pivot vector has ndim
\* entries and entry jj is a row index with jj <= indx[jj] < ndim, whatever
\* the caller's vector held before the call.
C4_PivotInRange ==
  LUDone =>
    /\ DOMAIN indx = Idx(ndim)
    /\ \A jj \in Idx(ndim) : jj <= indx[jj] /\ indx[jj] < ndim

\* C4 witness: a returned decomposition of a 3 x 3 matrix whose first
\* column needed the last row as pivot.
C4_Witness ==
  /\ pc = "decomposed"
  /\ ndim = 3
  /\ indx[0] = 2
  /\ indx[2] = 2

\* C5: the recorded swaps, replayed in order on the identity, give the row
\* permutation luDecomposition applied (position i holds the index of the
\* input row left in row i); and replayed on a right-hand side, as the
\* permutation loop of backSubstitution does, they put at position i the
\* entry of that input row.
C5_ReplayIsPermutation ==
  /\ LUDone => Replay(indx) = rowOf
  /\ pc \in {"forward", "backward", "solved"} =>
       \A i \in Idx(ndim) : PermuteTo(indx, b0, ndim)[i] = b0[rowOf[i]]

\* C5 witness: a decomposition with two swaps, about to be solved
\* against a right-hand side with distinct entries at the moved positions.
C5_Witness ==
  /\ pc = "forward"
  /\ ndim = 3
  /\ indx[0] # 0
  /\ indx[1] # 1
  /\ rowOf[0] # 0 /\ rowOf[1] # 1 /\ rowOf[2] # 2
  /\ b0[0] # b0[1]

\* The sign the parity has after the recorded number of swaps.
ParityOf(ix) == IF SwapCount(ix) % 2 = 0 THEN "+1" ELSE "-1"

\* C6: the value the caller receives from luDecomposition (the version
\* that returns one) is +1 after an even number of row swaps and -1 after
\* an odd number.
C6_ParityReturned ==
  (ver = "eps" /\ call = "luDecomposition" /\ pc = "decomposed") => ret = ParityOf(indx)

\* The local d holds the parity with its sign until the return.
EpsLocalParity ==
  (ver = "eps" /\ LUDone) => d = (IF SwapCount(indx) % 2 = 0 THEN One ELSE MinusOne)

\* C7: when no diagonal clamp fired, the stored factors multiply to the
\* row-permuted input: L * U = P * A, with L the strict lower triangle and
\* a unit diagonal, U the upper triangle, P given by the recorded swaps.
C7_FactorsMultiplyToInput ==
  (LUDone /\ clamped = {}) =>
    MatMul(LowerOf(a), UpperOf(a)) = [i \in Idx(ndim) |-> a0[Replay(indx)[i]]]

\* C7 witness: a 3 x 3 decomposition without clamp, with a swap and
\* multipliers below the diagonal in two columns.
C7_Witness ==
  /\ pc = "decomposed"
  /\ clamped = {}
  /\ ndim = 3
  /\ indx[0] # 0
  /\ a[1][0] # Zero
  /\ a[2][1] # Zero

UpperTriangular(m) == \A i, k \in Idx(ndim) : k < i => m[i][k] = Zero
LowerTriangular(m) == \A i, k \in Idx(ndim) : k > i => m[i][k] = Zero

\* m is a triangular (or diagonal) matrix with its rows permuted.
KnownDeterminant(m) ==
  \E q \in Permutations(Idx(ndim)) :
    LET t == [i \in Idx(ndim) |-> m[q[i]]]
    IN  UpperTriangular(t) \/ LowerTriangular(t)

Diagonal(m) == [i \in Idx(ndim) |-> m[i][i]]

\* C8: for a (here non-singular) row-permuted triangular input, the parity
\* luDecomposition returned times the product of the diagonal of the
\* decomposed matrix is det(A), sign included.
C8_DeterminantFromParity ==
  (ver = "eps" /\ call = "luDecomposition" /\ pc = "decomposed"
     /\ KnownDeterminant(a0) /\ NonSingular(a0)) =>
    /\ ret \in {"+1", "-1"}
    /\ Mul(IF ret = "+1" THEN One ELSE MinusOne, ProdTo(Diagonal(a), ndim)) = Det(a0)

\* With the local d in place of the returned value the product is det(A).
EpsLocalDeterminant ==
  (ver = "eps" /\ LUDone /\ NonSingular(a0)) =>
    Mul(d, ProdTo(Diagonal(a), ndim)) = Det(a0)

\* C9: for a non-singular A and any right-hand side b, the vector that
\* luDecomposition followed by backSubstitution produces satisfies
\* A * x = b exactly.
C9_RoundTrip == (pc = "solved" /\ NonSingular(a0)) => MatVec(a0, Solution) = b0

\* The "eps" version solves exactly when no entry of b is below the
\* tolerance.
EpsRoundTrip ==
  (ver = "eps" /\ pc = "solved" /\ NonSingular(a0) /\ RegularVec(b0))
    => MatVec(a0, Solution) = b0

\* C10: an inverse(a, ndim) on a non-singular A ends with a holding B such
\* that A * B = I and B * A = I.
C10_InverseCorrect ==
  (call = "inverse" /\ NonSingular(a0) /\ pc \in {"inverted", "illformed", "aborted", "raised"})
    => /\ pc = "inverted"
       /\ MatMul(a0, a) = IdentityMat
       /\ MatMul(a, a0) = IdentityMat

\* When inverseNoLU returns in the "eps" version, a holds the inverse.
EpsInverseCorrect ==
  (pc = "inverted" /\ NonSingular(a0))
    => MatMul(a0, a) = IdentityMat /\ MatMul(a, a0) = IdentityMat

\* Tolerance of the comparison with a printed value; wider than any
\* tolerance the scenarios state.
ScenarioTol == Rat(1, 1000)
Near(u, v) == Leq(fabs(Sub(u, v)), ScenarioTol)

InScenario == ver = "eps" /\ pc = "solved" /\ a0 = ScenarioMatrix /\ b0 = ScenarioRhs

ExchangeMatrix == [i \in Idx(2) |-> [k \in Idx(2) |-> IF i = k THEN Zero ELSE One]]

\* C12: for A = [[0,1],[1,0]], luDecomposition performs exactly one row
\* swap, hands the caller the parity -1 and the pivot vector [1,1], and
\* backSubstitution against b = [1,0] yields x = [0,1].
C12_ExchangeScenario ==
  /\ (a0 = ExchangeMatrix /\ call = "luDecomposition" /\ pc = "decomposed") =>
       /\ rowOf = [i \in Idx(2) |-> 1 - i]
       /\ indx = [i \in Idx(2) |-> 1]
       /\ ver = "eps" => ret = "-1"
  /\ (a0 = ExchangeMatrix /\ pc = "solved" /\ b0 = UnitVec(0)) =>
       Solution = UnitVec(1)

\* All of C12 but the value handed to the caller: the swap, the pivot
\* vector, the local parity of the "eps" version and the solution.
ExchangeScenarioLocal ==
  /\ (a0 = ExchangeMatrix /\ LUDone) =>
       /\ rowOf = [i \in Idx(2) |-> 1 - i]
       /\ indx = [i \in Idx(2) |-> 1]
       /\ ver = "eps" => d = MinusOne
  /\ (a0 = ExchangeMatrix /\ pc = "solved" /\ b0 = UnitVec(0)) =>
       Solution = UnitVec(1)

\* C13: for A the 3 x 3 identity, luDecomposition records no row swap
\* (pivot vector [0,1,2]) and, where it returns a parity, returns +1; and
\* inverse(a, 3) ends with the matrix equal to the identity.
C13_IdentityScenario ==
  /\ (ndim = 3 /\ a0 = IdentityMat /\ call = "luDecomposition" /\ pc = "decomposed") =>
       /\ rowOf = IdentityIdx
       /\ indx = IdentityIdx
       /\ ver = "eps" => ret = "+1"
  /\ (ndim = 3 /\ a0 = IdentityMat /\ call = "inverse"
        /\ pc \in {"inverted", "illformed"}) =>
       pc = "inverted" /\ a = IdentityMat

\* C13 where the calls can be made and return.
IdentityScenarioReturned ==
  /\ (ndim = 3 /\ a0 = IdentityMat /\ LUDone) =>
       /\ rowOf = IdentityIdx
       /\ indx = IdentityIdx
       /\ ver = "eps" => d = One
  /\ (ndim = 3 /\ a0 = IdentityMat /\ pc = "inverted") => a = IdentityMat

\* Column k of the buffer m.
ColumnOf(m, k) == [i \in Idx(ndim) |-> m[i][k]]

\* C14: inverseNoLU solves column k from the unit vector e_k against the
\* factors and the pivot vector as luDecomposition left them; while the
\* columns are being solved the caller's matrix and the pivot vector are
\* not written (nor are they by backSubstitution itself), every finished
\* column of the buffer is the solve of its unit vector against the matrix
\* as it still stands, and only the final step copies the buffer over the
\* matrix.
C14_InvertSolvesThenCopies ==
  /\ [](pc \in {"invert", "copy"} =>
          \A k \in 0 .. j - 1 :
            ColumnOf(inv_a, k) = backSubstitution(a, indx, UnitVec(k)))
  /\ [][pc = "invert" =>
          (/\ a' = a
           /\ indx' = indx
           /\ col' = backSubstitution(a, indx, UnitVec(j))
           /\ ColumnOf(inv_a', j) = col')]_vars
  /\ [][(pc = "forward" \/ pc = "backward") => (a' = a /\ indx' = indx)]_vars
  /\ [][pc = "copy" => (a' = inv_a /\ pc' = "inverted")]_vars

\* C14 witness: all three columns solved against factors with a row swap
\* and a multiplier, the buffer not yet copied.
C14_Witness ==
  /\ pc = "copy"
  /\ ndim = 3
  /\ indx[0] # 0
  /\ a[1][0] # Zero
  /\ inv_a # a

\* C15: inverse(a, ndim) enters luDecomposition first and goes on to
\* inverseNoLU only from the return of luDecomposition, on the same matrix
\* and with the pivot vector luDecomposition produced; after a
\* SingularMatrix error inverseNoLU is never entered.
C15_InverseChain ==
  /\ [](call = "inverse" => pc # "illformed")
  /\ [][(call # "inverse" /\ call' = "inverse") => pc' = "scan"]_vars
  /\ [][(call = "inverse" /\ pc # "invert" /\ pc' = "invert") =>
          (pc = "decomposed" /\ a' = a /\ indx' = indx /\ ndim' = ndim)]_vars
  /\ [][(call = "inverse" /\ pc = "raised") => pc' = "raised"]_vars

\* The chain of C15 in the "eps" version.
EpsInverseChain ==
  /\ []((ver = "eps" /\ call = "inverse") => pc # "illformed")
  /\ [][(ver = "eps" /\ call # "inverse" /\ call' = "inverse") => pc' = "scan"]_vars
  /\ [][(call = "inverse" /\ pc # "invert" /\ pc' = "invert") =>
          (pc = "decomposed" /\ a' = a /\ indx' = indx /\ ndim' = ndim)]_vars
  /\ [][(call = "inverse" /\ pc = "raised") => pc' = "raised"]_vars

\* C16: for every dimension and every input, luDecomposition,
\* backSubstitution and inverseNoLU run to a return or to SingularMatrix:
\* no call ends in an abort on an undefined operation.
C16_NoAbort == pc # "aborted"

\* Where runs abort: in the progress test of the "eps" version, which has
\* the interval 0 for these dimensions, and in the row swap of the "fixed"
\* version; nowhere else.
AbortsOnlyThere ==
  [][pc' = "aborted" =>
       \/ ver = "eps" /\ pc = "column" /\ ProgressInterval(ndim) = 0
       \/ ver = "fixed" /\ pc = "swap" /\ j # imax]_vars

\* The column loop of luDecomposition without a progress test, from column
\* jc on: elimination, pivot search, swap, pivot record, clamp
\* and scaling, column after column.
RECURSIVE NoProgressFrom(_, _, _, _, _, _)
NoProgressFrom(m, sv, ix, dd, jc, v) ==
  IF jc = ndim THEN [out |-> "decomposed", a |-> m, indx |-> ix, d |-> dd]
  ELSE LET c == ElimColumn(m, jc)
           m1 == [i \in Idx(ndim) |-> [m[i] EXCEPT ![jc] = c[i]]]
           im == PivotRow(c, sv, jc, 0)
           m2 == IF im # jc THEN SwapRows(m1, im, jc) ELSE m1
           sv2 == IF im # jc THEN SwapScale(sv, im, jc) ELSE sv
           dd2 == IF im # jc /\ v = "eps" THEN Neg(dd) ELSE dd
           m3 == ScaleColumn(m2, jc, Clamp(m2[jc][jc], v))
       IN  NoProgressFrom(m3, sv2, RecordPivot(ix, jc, im), dd2, jc + 1, v)

\* The outcome of luDecomposition on m with the progress code removed
\* (version v; lu.hpp has none).
NoProgress(m, v) ==
  IF \E i \in Idx(ndim) : SingularRow(RowMax(m, i), v)
  THEN [out |-> "raised"]
  ELSE NoProgressFrom(m, [i \in Idx(ndim) |-> Div(One, RowMax(m, i))],
                      ZeroIdx(ndim), One, 0, v)

\* The outcome of the call that has ended.
Outcome ==
  IF pc = "decomposed" THEN [out |-> "decomposed", a |-> a, indx |-> indx, d |-> d]
  ELSE [out |-> pc]

\* C17: a luDecomposition with the progress indicator ends as the same
\* algorithm without it does: with the same decomposed matrix, pivot
\* vector and parity, or with the same SingularMatrix error.
C17_ProgressHarmless ==
  (ver = "eps" /\ call = "luDecomposition"
     /\ pc \in {"decomposed", "raised", "aborted"}) => Outcome = NoProgress(a0, ver)

\* Every call that returns or raises ends as the algorithm without the
\* progress code does.
ProgressHarmlessOnReturn ==
  (ver = "eps" /\ call = "luDecomposition" /\ pc \in {"decomposed", "raised"})
    => Outcome = NoProgress(a0, ver)

\* C18: the five-argument backSubstitution works on a copy: a right-hand
\* side passed apart from x is unchanged after the call, and x, whether
\* passed apart from b or as the same vector, ends as the solution the
\* in-place form leaves in b for the same factors, pivot vector and
\* right-hand side.
C18_SolveOnCopy ==
  (ver = "fixed" /\ pc = "solved") =>
    /\ ~aliased => b = b0
    /\ x = backSubstitution(a, indx, b0)

\* The frame part of C18: b is left alone unless it is x, and x does not
\* depend on whether it is b.
FiveArgumentFrame ==
  (ver = "fixed" /\ pc = "solved") =>
    /\ ~aliased => b = b0
    /\ aliased => b = x
    /\ x = FixedBackwardFrom(a, ForwardTo(a, PermuteTo(indx, b0, ndim), ndim), 1)

\* The second caller's call has ended, and how.
PeerOutcome ==
  IF peer.pc = "decomposed"
  THEN [out |-> "decomposed", a |-> peer.a, indx |-> peer.indx, d |-> peer.d]
  ELSE [out |-> peer.pc]

\* C19: two callers on disjoint matrices and vectors do not interfere.
\* Under every interleaving of their steps a luDecomposition that returns
\* or raises ends as it does when run alone on its input, for either
\* caller, with a return value the parity determines; a solve ends as the
\* solve of the factors, pivot vector and right-hand side of its caller;
\* and no step of one caller changes the storage of the other.
C19_NoInterference ==
  /\ []((call = "luDecomposition" /\ pc \in {"decomposed", "raised"}) =>
          Outcome = NoProgress(a0, ver))
  /\ [](pc = "decomposed" => ret \in Returned(d, ver))
  /\ []((ver = "eps" /\ pc = "solved") => b = backSubstitution(a, indx, b0))
  /\ [](peer.pc \in {"decomposed", "raised"} =>
          /\ PeerOutcome = NoProgress(peer.a0, ver)
          /\ peer.pc = "decomposed" => peer.ret \in Returned(peer.d, ver))
  /\ [][peer' # peer => ownVars' = ownVars]_vars
  /\ [][ownVars' # ownVars => peer' = peer]_vars

\* C19 witness: both callers have returned from luDecomposition, each
\* after a row swap, the second caller's call having started after and
\* ended before this caller's.
C19_Witness ==
  /\ pc = "decomposed"
  /\ peer.pc = "decomposed"
  /\ indx[0] = 1
  /\ peer.indx[0] = 1
  /\ vv # peer.vv

\* The outcome part of C19 alone, as a state predicate.
OutcomeAsAlone ==
  /\ (call = "luDecomposition" /\ pc \in {"decomposed", "raised"}) =>
       Outcome = NoProgress(a0, ver)
  /\ peer.pc \in {"decomposed", "raised"} => PeerOutcome = NoProgress(peer.a0, ver)

\* C20: as the comment on the "eps" luDecomposition documents, the value
\* the caller receives is -1 after an even number of row interchanges and
\* +1 after an odd number.
C20_DocumentedReturn ==
  (ver = "eps" /\ call = "luDecomposition" /\ pc = "decomposed") =>
    ret = (IF SwapCount(indx) % 2 = 0 THEN "-1" ELSE "+1")

\* What the caller does receive: +1 exactly after an even number of row
\* interchanges, and no sign after an odd number.
ReturnedOneIffEven ==
  (ver = "eps" /\ call = "luDecomposition" /\ pc = "decomposed") =>
    /\ ret = "+1" <=> SwapCount(indx) % 2 = 0
    /\ ret # "-1"

\* The figure of merit of row i in the pivot search of the current column:
\* scale factor times magnitude of the candidate just written to a(i,j).
Merit(i) == Mul(vv[i], fabs(a[i][j]))

\* u <= v, by the sign of the difference.
NotAbove(u, v) == Sub(u, v)[1] <= 0

\* The rows of the search that attain the largest figure of merit.
BestRows == {i \in j .. ndim - 1 : \A k \in j .. ndim - 1 : NotAbove(Merit(k), Merit(i))}

\* C21 as stated: when several rows attain the largest figure of merit,
\* the pivot row is the first of them; when row j attains it, no swap
\* follows.
C21_TieFavoursFirst ==
  pc = "swap" =>
    /\ imax \in BestRows
    /\ \A i \in BestRows : imax <= i
    /\ j \in BestRows => imax = j

\* C21: when several rows attain the largest figure of merit, the pivot
\* row is the last of them (the test is dum >= aamax); in particular
\* a swap follows whenever a row below row j attains it, also when row j
\* attains it too.
C21_TieFavoursLast ==
  pc = "swap" =>
    /\ imax \in BestRows
    /\ \A i \in BestRows : i <= imax
    /\ (\E i \in BestRows : i # j) => imax # j

\* C21 witness: the search of column 0 of a 3 x 3 matrix has ended with
\* rows 0 and 1 tied for the largest figure of merit and row 2 below it.
C21_Witness ==
  /\ pc = "swap"
  /\ ndim = 3
  /\ j = 0
  /\ BestRows = {0, 1}
  /\ imax = 1

\* C22: at the end of the pivot search of column j the chosen row imax lies
\* in [j, n) and its figure of merit vv[imax]*|a(imax,j)|, taken on the
\* candidates just written to column j, is at least that of every row i in
\* [j, n).
C22_PivotMaximal ==
  pc = "swap" =>
    /\ imax \in j .. ndim - 1
    /\ \A i \in j .. ndim - 1 : NotAbove(Merit(i), Merit(imax))

\* C22 witness: a search over two rows whose candidates have the same
\* magnitude and whose scale factors differ: the upper row has the larger
\* figure of merit and is chosen, although the lower row is compared last.
C22_Witness ==
  /\ pc = "swap" /\ ndim = 2 /\ j = 0 /\ imax = 0
  /\ Merit(0) # Merit(1)
  /\ fabs(a[0][0]) = fabs(a[1][0])

\* C23: whenever the swap step of column j runs with imax # j it exchanges
\* rows imax and j of the matrix, exchanges the scale factors vv[imax] and
\* vv[j], and flips the parity; with imax = j it changes none of the three.
C23_SwapStep ==
  [][(pc = "swap" /\ pc' = "finish") =>
       IF imax # j
       THEN (/\ a' = SwapRows(a, imax, j)
             /\ vv' = SwapRows(vv, imax, j)
             /\ (ver = "eps" => d' = Neg(d)))
       ELSE (a' = a /\ vv' = vv /\ d' = d)]_vars

\* What the swap step does: the rows are exchanged and the parity flipped,
\* vv[imax] receives vv[j], and vv[j] keeps its value.
SwapStepOneWay ==
  [][(pc = "swap" /\ pc' = "finish") =>
       IF imax # j
       THEN (/\ a' = SwapRows(a, imax, j)
             /\ vv' = [vv EXCEPT ![imax] = vv[j]]
             /\ (ver = "eps" => d' = Neg(d)))
       ELSE (a' = a /\ vv' = vv /\ d' = d)]_vars

\* The columns whose diagonal element is final: those before the current
\* column while luDecomposition runs, all of them from its return until
\* backSubstitution or the column loop of inverseNoLU is over.
FinishedColumns ==
  IF pc \in {"column", "swap", "finish"} THEN 0 .. j - 1
  ELSE IF pc \in {"return", "decomposed", "forward", "backward", "invert"}
       THEN Idx(ndim)
       ELSE {}

\* Every final diagonal element is non-zero, and so is the divisor of the
\* sub-diagonal scaling about to be done.
DivisorsNonZero ==
  /\ \A i \in FinishedColumns : a[i][i] # Zero
  /\ pc = "finish" => Clamp(a[j][j], ver) # Zero
  /\ LUDone => \A i \in Idx(ndim) : a[i][i] # Zero

\* No step changes a final diagonal element.
DiagonalKept == \A i \in FinishedColumns : a'[i][i] = a[i][i]

\* C24: once column i of Decompose is finished a(i,i) is non-zero and is
\* not changed again, by the rest of Decompose or by Solve; so after a
\* successful Decompose every diagonal element is non-zero, and the divisor
\* of the sub-diagonal scaling and of every division of Solve is non-zero.
C24_DiagonalNonZero == []DivisorsNonZero /\ [][DiagonalKept]_vars

\* C24 witness: a decomposition whose computed pivot was at or below the
\* tolerance, followed by a Solve that has divided by every diagonal element.
C24_Witness ==
  /\ pc = "solved" /\ ndim >= 2 /\ clamped # {}
  /\ \A i \in Idx(ndim) : a[i][i] # Zero

\* C25: the clamp at the end of column j sets a(j,j) to the tolerance when
\* its magnitude is at or below the tolerance, and leaves a pivot of larger
\* magnitude, positive or negative, exactly as computed.
C25_ClampByMagnitude ==
  [][pc = "finish" =>
       a'[j][j] = (IF Leq(fabs(a[j][j]), SMALL(ver)) THEN SMALL(ver)
                   ELSE a[j][j])]_vars

\* C25 in the "eps" version.
EpsClampByMagnitude ==
  [][(ver = "eps" /\ pc = "finish") =>
       a'[j][j] = (IF Leq(fabs(a[j][j]), SMALL(ver)) THEN SMALL(ver)
                   ELSE a[j][j])]_vars

\* What the clamp of the "fixed" version does: it goes by the sign.
FixedClampBySign ==
  [][(ver = "fixed" /\ pc = "finish") =>
       a'[j][j] = (IF Leq(a[j][j], Zero) THEN SMALL(ver) ELSE a[j][j])]_vars

\* Row i of the upper-triangular system: xs[i] is ys[i] less the products
\* a(i,k)*xs[k] of the later components, divided by the diagonal.
BackRow(ys, xs, i) ==
  xs[i] = Div(Sub(ys[i], SumOver(i + 1 .. ndim - 1,
                                 [k \in i + 1 .. ndim - 1 |-> Mul(a[i][k], xs[k])])),
              a[i][i])

\* C26: the backward phase of Solve computes every component, index 0
\* included: x[i] = (y[i] - sum over k > i of a(i,k)*x[k]) / a(i,i), where y
\* is the vector the forward phase left.
C26_BackwardAllRows ==
  [][pc = "backward" =>
       \A i \in Idx(ndim) : BackRow(Solution, Solution', i)]_vars

\* C26 in the "eps" version.
EpsBackwardAllRows ==
  [][(ver = "eps" /\ pc = "backward") =>
       \A i \in Idx(ndim) : BackRow(Solution, Solution', i)]_vars

\* What the backward loop of the "fixed" version leaves: component 0 is the
\* forward value, untouched.
FixedBackwardSkipsRowZero ==
  [][(ver = "fixed" /\ pc = "backward") => x'[0] = x[0]]_vars

\* Row i of the unit-lower-triangular system: ys[i] is pb[i] less the
\* products a(i,k)*ys[k] of the earlier components.
ForwardRow(pb, ys, i) ==
  ys[i] = Sub(pb[i], SumOver(0 .. i - 1,
                             [k \in 0 .. i - 1 |-> Mul(a[i][k], ys[k])]))

\* The forward phase leaves the solution y of L*y = pb, pb being the
\* right-hand side after the recorded swaps.
ForwardSolves ==
  \A i \in Idx(ndim) :
    ForwardRow(PermuteTo(indx, Solution, ndim), Solution', i)

\* C27: for every right-hand side b, whatever the magnitude of its entries,
\* the forward phase of Solve yields y with
\* y[i] = pb[i] - sum over k < i of a(i,k)*y[k]; the skipping of leading
\* entries does not change the result.
C27_ForwardAllRhs == [][pc = "forward" => ForwardSolves]_vars

\* C27 in the "fixed" version, which has no shortcut.
FixedForwardAllRhs == [][(ver = "fixed" /\ pc = "forward") => ForwardSolves]_vars

\* C27 in the "eps" version for right-hand sides whose entries are zero or
\* above the tolerance in magnitude.
EpsForwardRegularRhs ==
  [][(ver = "eps" /\ pc = "forward" /\ RegularVec(b0)) => ForwardSolves]_vars

\* The indices used on the matrix, the scale factors and the pivot vector
\* are inside their containers: the rows and columns of the column loop,
\* the pivot row, the entries of the pivot vector that backSubstitution
\* uses on the right-hand side, and the columns of the backward loop.
MatrixAndVectorAccessInRange ==
  /\ pc \in {"scan", "column", "swap", "finish"} => DOMAIN vv = Idx(ndim)
  /\ pc \in {"column", "swap", "finish"} => j \in Idx(ndim)
  /\ pc \in {"swap", "finish"} => imax \in Idx(ndim)
  /\ LUDone => DOMAIN indx = Idx(ndim) /\ \A i \in Idx(ndim) : indx[i] \in Idx(ndim)
  /\ pc = "backward" =>
       /\ DOMAIN Solution = Idx(ndim)
       /\ \A i \in 1 .. ndim - 1 : FixedInnerHi(i) <= ndim
  /\ pc = "invert" => j \in Idx(ndim) /\ DOMAIN inv_a = Idx(ndim)

\* C28: every element access of Decompose, Solve and Invert is inside the
\* container it indexes, for every n >= 1 and every input: the matrix, the
\* vectors, the scratch scale factors, and the row buffer through which the
\* "fixed" version swaps rows, indexed by k = 0 .. n-1.
C28_IndexSafety ==
  /\ MatrixAndVectorAccessInRange
  /\ (ver = "fixed" /\ pc = "swap" /\ j # imax) =>
       \A k \in Idx(ndim) : k < RowBufferLen

\* The scale factor of the input row that now sits at position i.
ScaleOfRowAt(i) == Div(One, RowMax(a0, rowOf[i]))

\* C29: at the start of the pivot search of column j, and throughout it,
\* the scale factor vv[i] of every position i in [j, n) is 1 over the
\* largest magnitude of the input row now at position i, although the swap
\* step only copies vv[j] to vv[imax]; the positions before j, which may
\* hold a stale factor, are not among those the search reads.
C29_ScaleFactors ==
  (pc = "column" \/ pc = "swap") =>
    \A i \in j .. ndim - 1 : vv[i] = ScaleOfRowAt(i)

\* C29 witness: column 1 is about to be searched after a swap in column 0
\* of rows with different scale factors; position 0 holds a stale factor.
C29_Witness ==
  /\ pc = "column" /\ j = 1 /\ rowOf[1] = 0
  /\ vv[0] # ScaleOfRowAt(0)
  /\ vv[1] = ScaleOfRowAt(1)

\* C30: on the decomposed matrix, its pivot vector and any right-hand side
\* b, permuting b by all n recorded swaps and then forward-substituting
\* ("fixed" version) gives the same vector as the single loop of the "eps"
\* version that interleaves swap i with forward step i.
C30_ForwardPhasesAgree ==
  pc = "forward" =>
    PermuteForwardTo(a, indx, b0, ndim).b = ForwardTo(a, PermuteTo(indx, b0, ndim), ndim)

\* C30 for right-hand sides whose entries are zero or above the tolerance
\* in magnitude.
ForwardPhasesAgreeRegularRhs ==
  (pc = "forward" /\ RegularVec(b0)) =>
    PermuteForwardTo(a, indx, b0, ndim).b = ForwardTo(a, PermuteTo(indx, b0, ndim), ndim)

=============================================================================
